---- MODULE Spec2Model ----
(***************************************************************************)
(* Model of the batch image converters of llleovianna/audio-converter:     *)
(*   src/image_converter.py  (PyQt5 "Image Converter Pro": ConversionWorker *)
(*                            and the ImageConverterPro handlers)           *)
(*   src/conversor_webp.py   (Tk "ConversorWebP")                           *)
(*                                                                         *)
(* Strings are sequences of one-character strings, so that str.upper(),    *)
(* str.lower(), the glob patterns '*.ext', Path.suffix, Path.stem and the  *)
(* '/' join of pathlib are computed, not assumed.  A path is a sequence of *)
(* components, each component a string.                                    *)
(***************************************************************************)
EXTENDS Integers, Sequences, FiniteSets, Bags, TLC

(***************************************************************************)
(* Bounds of the model.                                                    *)
(***************************************************************************)
\* most directory entries in the scanned tree
MaxFiles == 3
\* largest value of the "Max Workers" spin box that is explored
MaxWorkers == 2
\* most lines the Tk log holds when a button other than a conversion adds one
MaxIdleLog == 2
MaxHistory == 2
\* most directory entries in the tree searched for duplicates
MaxDupFiles == 4

(***************************************************************************)
(* Characters and strings.                                                 *)
(***************************************************************************)
LowerCase == << "a", "b", "c", "d", "e", "f", "g", "h", "i", "j", "k", "l", "m",
                "n", "o", "p", "q", "r", "s", "t", "u", "v", "w", "x", "y", "z" >>
UpperCase == << "A", "B", "C", "D", "E", "F", "G", "H", "I", "J", "K", "L", "M",
                "N", "O", "P", "Q", "R", "S", "T", "U", "V", "W", "X", "Y", "Z" >>
Digits == << "0", "1", "2", "3", "4", "5", "6", "7", "8", "9" >>
\* the characters used, in code point order
\* ('.' < '/' < '0'..'9' < 'A'..'Z' < '_' < 'a'..'z')
CodePoints == << ".", "/" >> \o Digits \o UpperCase \o << "_" >> \o LowerCase

Ord(c) == CHOOSE i \in 1..Len(CodePoints) : CodePoints[i] = c

IndexIn(c, table) == IF \E i \in 1..Len(table) : table[i] = c
                     THEN CHOOSE i \in 1..Len(table) : table[i] = c
                     ELSE 0

\* str.upper() and str.lower()
Upper(s) == [i \in 1..Len(s) |->
               IF IndexIn(s[i], LowerCase) > 0 THEN UpperCase[IndexIn(s[i], LowerCase)]
                                               ELSE s[i]]
Lower(s) == [i \in 1..Len(s) |->
               IF IndexIn(s[i], UpperCase) > 0 THEN LowerCase[IndexIn(s[i], UpperCase)]
                                               ELSE s[i]]

\* s < t for two strings (Python's str comparison: by code point, then by length)
RECURSIVE StrLess(_, _)
StrLess(s, t) ==
    IF t = << >> THEN FALSE
    ELSE IF s = << >> THEN TRUE
    ELSE IF s[1] # t[1] THEN Ord(s[1]) < Ord(t[1])
    ELSE StrLess(Tail(s), Tail(t))

EndsWith(s, e) == /\ Len(s) >= Len(e)
                  /\ SubSeq(s, Len(s) - Len(e) + 1, Len(s)) = e

\* str.rfind('.') as a 1-based index, 0 when there is no dot
RFindDot(s) == IF \E i \in 1..Len(s) : s[i] = "."
               THEN CHOOSE i \in 1..Len(s) :
                        s[i] = "." /\ \A j \in (i + 1)..Len(s) : s[j] # "."
               ELSE 0

(***************************************************************************)
(* pathlib.                                                                *)
(***************************************************************************)
PathName(p) == p[Len(p)]
PathParent(p) == SubSeq(p, 1, Len(p) - 1)

\* PurePath.suffix: the last dot and what follows, unless the dot is the
\* first or the last character of the name
PathSuffix(p) ==
    LET n == PathName(p)
        i == RFindDot(n)
    IN  IF 1 < i /\ i < Len(n) THEN SubSeq(n, i, Len(n)) ELSE << >>

\* PurePath.stem
PathStem(p) ==
    LET n == PathName(p)
        i == RFindDot(n)
    IN  IF 1 < i /\ i < Len(n) THEN SubSeq(n, 1, i - 1) ELSE n

\* the components of a string handed to Path(...) or to the '/' operator:
\* split on '/', empty components dropped
RECURSIVE SplitPath(_, _)
SplitPath(s, cur) ==
    IF s = << >> THEN (IF cur = << >> THEN << >> ELSE << cur >>)
    ELSE IF s[1] = "/" THEN (IF cur = << >> THEN << >> ELSE << cur >>) \o SplitPath(Tail(s), << >>)
    ELSE SplitPath(Tail(s), Append(cur, s[1]))

\* p / s
PathJoin(p, s) == p \o SplitPath(s, << >>)

IsUnder(p, dir) == Len(p) > Len(dir) /\ SubSeq(p, 1, Len(dir)) = dir

\* p.relative_to(dir), for p equal to dir or under it
RelativeTo(p, dir) == SubSeq(p, Len(dir) + 1, Len(p))

\* p < q for two paths (PurePath.__lt__ compares the component tuples)
RECURSIVE PathLess(_, _)
PathLess(p, q) ==
    IF q = << >> THEN FALSE
    ELSE IF p = << >> THEN TRUE
    ELSE IF p[1] # q[1] THEN StrLess(p[1], q[1])
    ELSE PathLess(Tail(p), Tail(q))

(***************************************************************************)
(* The format tables (image_converter.py, lines 57-76).                    *)
(***************************************************************************)
ExtPng == << ".", "p", "n", "g" >>
ExtJpg == << ".", "j", "p", "g" >>
ExtJpeg == << ".", "j", "p", "e", "g" >>
ExtWebp == << ".", "w", "e", "b", "p" >>
ExtBmp == << ".", "b", "m", "p" >>
ExtGif == << ".", "g", "i", "f" >>
ExtTiff == << ".", "t", "i", "f", "f" >>
ExtTif == << ".", "t", "i", "f" >>
ExtIco == << ".", "i", "c", "o" >>

INPUT_FORMATS ==
    ("PNG" :> << ExtPng >>) @@
    ("JPEG" :> << ExtJpg, ExtJpeg >>) @@
    ("WebP" :> << ExtWebp >>) @@
    ("BMP" :> << ExtBmp >>) @@
    ("GIF" :> << ExtGif >>) @@
    ("TIFF" :> << ExtTiff, ExtTif >>) @@
    ("ICO" :> << ExtIco >>) @@
    ("All Images" :> << ExtPng, ExtJpg, ExtJpeg, ExtWebp, ExtBmp, ExtGif, ExtTiff, ExtTif >>)

OUTPUT_FORMATS ==
    ("WebP" :> [ext |-> ExtWebp, quality |-> TRUE, optimize |-> TRUE]) @@
    ("PNG" :> [ext |-> ExtPng, quality |-> FALSE, optimize |-> TRUE]) @@
    ("JPEG" :> [ext |-> ExtJpg, quality |-> TRUE, optimize |-> TRUE]) @@
    ("BMP" :> [ext |-> ExtBmp, quality |-> FALSE, optimize |-> FALSE]) @@
    ("GIF" :> [ext |-> ExtGif, quality |-> FALSE, optimize |-> TRUE]) @@
    ("TIFF" :> [ext |-> ExtTiff, quality |-> TRUE, optimize |-> FALSE]) @@
    ("ICO" :> [ext |-> ExtIco, quality |-> FALSE, optimize |-> FALSE])

(***************************************************************************)
(* State.                                                                  *)
(***************************************************************************)
VARIABLES
    fs,            \* the file system: path |-> [kind, size, enc]
    windows,       \* TRUE on Windows, where pathlib's glob ignores case
    widgets,       \* ImageConverterPro: what the input widgets hold
    settings,      \* ImageConverterPro.settings, the ConversionSettings object
    convert_btn,   \* ImageConverterPro.convert_btn is enabled
    cancel_btn,    \* ImageConverterPro.cancel_btn is enabled
    run_pc,        \* ConversionWorker: position of run(); "none": no worker yet
    is_cancelled,  \* ConversionWorker._is_cancelled
    images,        \* the list find_images() returned
    tasks,         \* one convert_single_image call and its future per image
    loop_i,        \* run(): iterations of the as_completed loop begun so far
    results,       \* run(): the list results
    emitted,       \* the signals the worker has emitted, in order
    handled,       \* conversion_complete signals the main window has handled
    history,       \* ImageConverterPro.history_table: its rows, oldest first
    call_pc,       \* position of a single call of find_images / generate_output_path
    gp_source,     \* generate_output_path: its argument
    gp_now,        \* generate_output_path: what datetime.now() formats to
    gp_result,     \* generate_output_path: the path returned, << >> before the call
    save_call,     \* convert_single_image: the arguments of its img.save() call
    rz_original_size, \* calculate_resize: its argument (width, height)
    rz_new_size,   \* calculate_resize: the size returned, << >> before the call
    rename_dir_input,      \* ImageConverterPro.rename_dir_input: the text
    rename_pattern_input,  \* ImageConverterPro.rename_pattern_input: the text
    rename_calls,  \* batch_rename: the file.rename(new_path) calls that returned
    dup_dir_input, \* ImageConverterPro.dup_dir_input: the text
    duplicate_list,\* ImageConverterPro.duplicate_list: its items
    message_box,   \* the QMessageBox a batch operation has shown
    fs_before,     \* the file system when the batch operation was started
    diretorio,     \* ConversorWebP.diretorio_selecionado is not empty
    convertendo,   \* ConversorWebP.convertendo
    btn_converter, \* ConversorWebP.btn_converter is enabled
    progress_on,   \* ConversorWebP.progress is running
    tk_pc,         \* position of the thread running converter_imagens; "none": no thread
    tk_todo,       \* converter_imagens: entries rglob('*') has still to yield
    convertidos,   \* converter_imagens: convertidos
    erros,         \* converter_imagens: erros
    total_economia,\* converter_imagens: total_economia
    tk_log         \* the tags of the lines of ConversorWebP.log_area

workerVars == << run_pc, is_cancelled, tasks, loop_i, results, emitted >>
guiVars == << widgets, convert_btn, cancel_btn, handled, history >>
callVars == << call_pc, gp_source, gp_now, gp_result, save_call >>
tkVars == << diretorio, convertendo, btn_converter, progress_on, tk_pc, tk_todo,
             convertidos, erros, total_economia, tk_log >>

toolVars == << rz_original_size, rz_new_size, rename_dir_input, rename_pattern_input,
              rename_calls,
              dup_dir_input, duplicate_list, message_box, fs_before >>

vars == << fs, windows, settings, images, workerVars, guiVars, callVars, tkVars, toolVars >>

(***************************************************************************)
(* The file system.  An entry is                                           *)
(*   kind "image"   a regular file Pillow decodes,                         *)
(*        "corrupt" a regular file Image.open() rejects with               *)
(*                  UnidentifiedImageError (an OSError),                   *)
(*        "bomb"    a regular file Image.open() rejects with               *)
(*                  DecompressionBombError (an Exception, not an OSError), *)
(*        "dir"     a directory,                                           *)
(*        "link"    a dangling symbolic link (stat() raises),              *)
(*   size  st_size,                                                        *)
(*   enc   the st_size of the file the codec writes for it.                *)
(* Directories that only contain other entries are implicit.               *)
(***************************************************************************)
Entry(k, sz, e) == [kind |-> k, size |-> sz, enc |-> e]

\* ConversionWorker.directory, Path("d")
Directory == << << "d" >> >>

Exists(fsys, p) == p \in DOMAIN fsys
IsFile(fsys, p) == Exists(fsys, p) /\ fsys[p].kind \in {"image", "corrupt", "bomb"}
IsDir(fsys, p) == Exists(fsys, p) /\ fsys[p].kind = "dir"

\* the entries the scanned tree may hold
Tree ==
    (<< << "d" >>, << "a", ".", "p", "n", "g" >> >> :> Entry("image", 3, 1)) @@
    (<< << "d" >>, << "a", ".", "j", "p", "g" >> >> :> Entry("corrupt", 2, 2)) @@
    (<< << "d" >>, << "a", ".", "w", "e", "b", "p" >> >> :> Entry("image", 2, 2)) @@
    (<< << "d" >>, << "s" >>, << "b", ".", "P", "N", "G" >> >> :> Entry("image", 4, 3)) @@
    (<< << "d" >>, << "c", ".", "p", "n", "g" >> >> :> Entry("dir", 0, 0)) @@
    (<< << "d" >>, << "e", ".", "p", "n", "g" >> >> :> Entry("link", 0, 0)) @@
    (<< << "d" >>, << "n", ".", "t", "x", "t" >> >> :> Entry("image", 1, 1)) @@
    (<< << "d" >>, << "s" >>, << "t" >>, << "f", ".", "j", "p", "e", "g" >> >> :> Entry("bomb", 5, 0)) @@
    (<< << "d" >>, << "g", ".", "P", "n", "g" >> >> :> Entry("image", 2, 1)) @@
    (<< << "d" >>, << "h", ".", "t", "i", "f" >> >> :> Entry("image", 6, 4))

Restrict(f, S) == [x \in S |-> f[x]]

\* the file systems with at most n of the entries of tree
FileSystems(tree, n) ==
    { Restrict(tree, S) : S \in { T \in SUBSET DOMAIN tree : Cardinality(T) <= n } }

(***************************************************************************)
(* ConversionSettings (lines 435-452); the fields the model reads.         *)
(***************************************************************************)
DefaultSettings ==
    [ input_format |-> "All Images",
      output_format |-> "WebP",
      quality |-> 80,
      recursive |-> TRUE,
      delete_original |-> FALSE,
      resize_enabled |-> FALSE,
      resize_width |-> 0,
      resize_height |-> 0,
      maintain_aspect_ratio |-> TRUE,
      apply_optimization |-> TRUE,
      rename_pattern |-> << >>,
      add_suffix |-> << >>,
      output_directory |-> << >>,
      max_workers |-> 4 ]

(***************************************************************************)
(* ConversionWorker.find_images (lines 477-498).                           *)
(***************************************************************************)
get_input_extensions(st) ==
    IF st.input_format \in DOMAIN INPUT_FORMATS
    THEN INPUT_FORMATS[st.input_format]
    ELSE INPUT_FORMATS["All Images"]

\* fnmatch of a name against the pattern '*' + ext; pathlib compiles the
\* pattern with re.IGNORECASE on Windows
GlobMatch(name, ext, win) ==
    IF win THEN EndsWith(Lower(name), Lower(ext)) ELSE EndsWith(name, ext)

\* Path.glob('*' + ext): the children of dir; Path.rglob: every depth.
\* Both yield whatever entry has a matching name.
Glob(fsys, dir, ext, rec, win) ==
    { p \in DOMAIN fsys : /\ IsUnder(p, dir)
                          /\ rec \/ Len(p) = Len(dir) + 1
                          /\ GlobMatch(PathName(p), ext, win) }

\* the list after the loops of lines 486-493, as a bag: images.extend(...)
\* for ext and for ext.upper(), for each extension in turn
RECURSIVE Extended(_, _, _, _, _)
Extended(fsys, dir, exts, rec, win) ==
    IF exts = << >> THEN EmptyBag
    ELSE SetToBag(Glob(fsys, dir, Head(exts), rec, win))
         (+) SetToBag(Glob(fsys, dir, Upper(Head(exts)), rec, win))
         (+) Extended(fsys, dir, Tail(exts), rec, win)

\* a mutant of RemoveDuplicates: the list is not passed through set()
RemoveDuplicatesKeepsAll(b) == b

\* list(set(images))
RemoveDuplicates(b) == SetToBag(BagToSet(b))

\* images.sort()
RECURSIVE SortPaths(_)
SortPaths(b) ==
    IF BagToSet(b) = {} THEN << >>
    ELSE LET m == CHOOSE x \in BagToSet(b) : \A y \in BagToSet(b) : ~PathLess(y, x)
         IN  << m >> \o SortPaths(b (-) SetToBag({m}))

find_images(fsys, dir, st, win) ==
    SortPaths(RemoveDuplicates(
        Extended(fsys, dir, get_input_extensions(st), st.recursive, win)))

(***************************************************************************)
(* ConversionWorker.generate_output_path (lines 500-529).                  *)
(***************************************************************************)
\* str.replace(old, new), old not empty
RECURSIVE Replace(_, _, _)
Replace(s, old, new) ==
    IF Len(s) < Len(old) THEN s
    ELSE IF SubSeq(s, 1, Len(old)) = old
         THEN new \o Replace(SubSeq(s, Len(old) + 1, Len(s)), old, new)
         ELSE << s[1] >> \o Replace(Tail(s), old, new)

\* lines 505-517
output_stem(st, source, now) ==
    LET stem == PathStem(source)
        renamed ==
            IF st.rename_pattern # << >>
            THEN Replace(Replace(Replace(st.rename_pattern,
                                         << "{", "n", "a", "m", "e", "}" >>, stem),
                                 << "{", "d", "a", "t", "e", "}" >>, now.date),
                         << "{", "t", "i", "m", "e", "}" >>, now.time)
            ELSE stem
    IN  IF st.add_suffix # << >> THEN renamed \o st.add_suffix ELSE renamed

\* lines 520-527
output_dir(st, dir, source) ==
    IF st.output_directory # << >>
    THEN SplitPath(st.output_directory, << >>) \o RelativeTo(PathParent(source), dir)
    ELSE PathParent(source)

\* output_dir.mkdir(parents=True, exist_ok=True) raises FileExistsError or
\* NotADirectoryError when the path or one of its parents is not a directory
MkdirRaises(fsys, d) ==
    \E k \in 1..Len(d) : Exists(fsys, SubSeq(d, 1, k)) /\ ~IsDir(fsys, SubSeq(d, 1, k))

Mkdir(fsys, d) ==
    LET made == { SubSeq(d, 1, k) : k \in 1..Len(d) }
    IN  [p \in DOMAIN fsys \cup made |-> IF p \in DOMAIN fsys THEN fsys[p] ELSE Entry("dir", 0, 0)]

generate_output_path_raises(fsys, st, dir, source) ==
    st.output_directory # << >> /\ MkdirRaises(fsys, output_dir(st, dir, source))

generate_output_path(st, dir, source, now) ==
    PathJoin(output_dir(st, dir, source),
             output_stem(st, source, now) \o OUTPUT_FORMATS[st.output_format].ext)

\* the file system generate_output_path leaves when it returns
generate_output_path_fs(fsys, st, dir, source) ==
    IF st.output_directory # << >> THEN Mkdir(fsys, output_dir(st, dir, source)) ELSE fsys

NoClock == [date |-> << >>, time |-> << >>]

\* what strftime('%Y%m%d') and strftime('%H%M%S') return
Clocks == { [date |-> << "2", "0", "2", "6", "0", "1", "0", "2" >>,
             time |-> << "0", "9", "3", "0", "0", "0" >>] }

\* ConversorWebP.__init__ (conversor_webp.py, lines 12-24); no thread yet
TkConstructed ==
    /\ diretorio = FALSE
    /\ convertendo = FALSE
    /\ btn_converter = TRUE
    /\ progress_on = FALSE
    /\ tk_pc = "none"
    /\ tk_todo = {}
    /\ convertidos = 0
    /\ erros = 0
    /\ total_economia = 0
    /\ tk_log = << >>

\* a QMessageBox: its icon (warning, information, critical), its title and the
\* number its text reports
MessageBox(icon, title, count) == [icon |-> icon, title |-> title, count |-> count]
NoMessageBox == MessageBox("none", "", 0)

\* no batch operation has been started, calculate_resize has not been called
NoTools ==
    /\ rz_original_size = << >>
    /\ rz_new_size = << >>
    /\ rename_dir_input = << >>
    /\ rename_pattern_input = << >>
    /\ rename_calls = << >>
    /\ dup_dir_input = << >>
    /\ duplicate_list = << >>
    /\ message_box = NoMessageBox
    /\ fs_before = << >>

\* no worker has been created (line 674)
NoWorker ==
    /\ run_pc = "none"
    /\ is_cancelled = FALSE
    /\ tasks = << >>
    /\ loop_i = 0
    /\ results = << >>
    /\ emitted = << >>

\* the widgets as the constructor leaves them (lines 772-885, 1008-1033)
DefaultWidgets ==
    [ input_format |-> "All Images",
      output_format |-> "WebP",
      quality |-> 80,
      recursive |-> TRUE,
      delete_original |-> FALSE,
      resize_enabled |-> FALSE,
      resize_width |-> 0,
      resize_height |-> 0,
      maintain_aspect_ratio |-> TRUE,
      apply_optimization |-> TRUE,
      output_directory |-> << >>,
      add_suffix |-> << >>,
      max_workers |-> 4 ]

\* ImageConverterPro.__init__ (lines 671-674) and the buttons (877-885)
Constructed ==
    /\ settings = DefaultSettings
    /\ convert_btn = TRUE
    /\ cancel_btn = FALSE
    /\ handled = 0
    /\ history = << >>

(***************************************************************************)
(* ConversionResult (lines 414-432).  None is the empty path.              *)
(***************************************************************************)
None == << >>

ConversionResult(src, out, ok, osize, nsize, msg) ==
    [ source_path |-> src, output_path |-> out, success |-> ok,
      original_size |-> osize, new_size |-> nsize, error_message |-> msg ]

NoResult == ConversionResult(None, None, FALSE, 0, 0, "")

(***************************************************************************)
(* ConversionWorker.convert_single_image (lines 531-596), in three steps:  *)
(*   begin    lines 533-534: source.stat() and generate_output_path(),     *)
(*            both outside the try statement;                              *)
(*   convert  lines 537-572: Image.open() ... img.save();                  *)
(*   finish   lines 574-586: output_path.stat(), source.unlink(), return.  *)
(* The except clause of lines 588-596 ends the last two steps.             *)
(***************************************************************************)
\* Path.stat() raises FileNotFoundError
StatRaises(fsys, p) == ~Exists(fsys, p) \/ fsys[p].kind = "link"

\* a directory exists when it was made, or holds entries of the tree
DirExists(fsys, d) == IsDir(fsys, d) \/ \E p \in DOMAIN Tree : IsUnder(p, d)

\* the exception Image.open(source) raises, "" when it returns an image
OpenError(fsys, p) ==
    IF StatRaises(fsys, p) THEN "FileNotFoundError"
    ELSE IF fsys[p].kind = "dir" THEN "IsADirectoryError"
    ELSE IF fsys[p].kind = "corrupt" THEN "UnidentifiedImageError"
    ELSE IF fsys[p].kind = "bomb" THEN "DecompressionBombError"
    ELSE ""

\* line 572: format_config['ext'][1:].upper()
save_format(st) == Upper(Tail(OUTPUT_FORMATS[st.output_format].ext))

\* the names under which Pillow registers the writers of the seven formats
PIL_SAVE == { << "W", "E", "B", "P" >>, << "P", "N", "G" >>, << "J", "P", "E", "G" >>,
              << "B", "M", "P" >>, << "G", "I", "F" >>, << "T", "I", "F", "F" >>,
              << "I", "C", "O" >> }

\* an empty dictionary (line 554)
NoKwargs == [k \in {} |-> 0]

\* a mutant of save_kwargs: 'quality' is passed for every format
save_kwargs_quality_always(st) ==
    LET format_config == OUTPUT_FORMATS[st.output_format]
    IN  ("quality" :> st.quality)
        @@ (IF format_config.optimize /\ st.apply_optimization
            THEN "optimize" :> TRUE ELSE NoKwargs)
        @@ (IF st.output_format = "WebP" THEN "method" :> 6 ELSE NoKwargs)
        @@ (IF st.output_format = "PNG" THEN "compress_level" :> 9 ELSE NoKwargs)

\* lines 554-569: the keyword arguments of img.save()
save_kwargs(st) ==
    LET format_config == OUTPUT_FORMATS[st.output_format]
    IN  (IF format_config.quality /\ st.output_format # "PNG"
         THEN "quality" :> st.quality ELSE NoKwargs)
        @@ (IF format_config.optimize /\ st.apply_optimization
            THEN "optimize" :> TRUE ELSE NoKwargs)
        @@ (IF st.output_format = "WebP" THEN "method" :> 6 ELSE NoKwargs)
        @@ (IF st.output_format = "PNG" THEN "compress_level" :> 9 ELSE NoKwargs)

\* no img.save() call yet
NoSaveCall == [format |-> << >>, kwargs |-> NoKwargs]

\* line 572: the format and the keyword arguments img.save() is called with
SaveCall(st) == [format |-> save_format(st), kwargs |-> save_kwargs(st)]

\* the exception img.save(output_path, format) raises, "" when it writes the file
SaveError(fsys, st, out) ==
    IF save_format(st) \notin PIL_SAVE THEN "KeyError"
    ELSE IF ~DirExists(fsys, PathParent(out)) THEN "FileNotFoundError"
    ELSE IF IsDir(fsys, out) THEN "IsADirectoryError"
    ELSE ""

\* the file system after img.save() wrote the encoding of src to out
Save(fsys, src, out) ==
    [p \in DOMAIN fsys \cup {out} |->
        IF p = out THEN Entry("image", fsys[src].enc, fsys[src].enc) ELSE fsys[p]]

\* the exception source.unlink() raises, "" when it removes the entry
UnlinkError(fsys, p) ==
    IF ~Exists(fsys, p) THEN "FileNotFoundError"
    ELSE IF fsys[p].kind = "dir" THEN "IsADirectoryError"
    ELSE ""

Unlink(fsys, p) == Restrict(fsys, DOMAIN fsys \ {p})

\* a submitted call and its future.  state: "queued", "running" (begin done),
\* "saved" (convert done), "finished"; exc: the exception the future holds,
\* "" when it holds result; yielded: as_completed has handed it to run();
\* attempts: how many times a pool thread has begun the call
Task(st, osize, out, e, res, y, n) ==
    [ state |-> st, original_size |-> osize, output_path |-> out,
      exc |-> e, result |-> res, yielded |-> y, attempts |-> n ]

QueuedTask == Task("queued", 0, None, "", NoResult, FALSE, 0)

\* a mutant of FailureResult: the size read at line 533 is not recorded
FailureResultNoSize(src, osize, e) == ConversionResult(src, None, FALSE, 0, 0, e)

\* lines 588-596
FailureResult(src, osize, e) == ConversionResult(src, None, FALSE, osize, 0, e)

\* the exception that leaves convert_single_image at lines 533-534, "" if none
begin_raises(fsys, st, dir, src) ==
    IF StatRaises(fsys, src) THEN "FileNotFoundError"
    ELSE IF generate_output_path_raises(fsys, st, dir, src) THEN "FileExistsError"
    ELSE ""

convert_begin(t, fsys, st, dir, src, now) ==
    IF begin_raises(fsys, st, dir, src) # ""
    THEN [t EXCEPT !.state = "finished", !.attempts = @ + 1,
                   !.exc = begin_raises(fsys, st, dir, src)]
    ELSE [t EXCEPT !.state = "running", !.attempts = @ + 1,
                   !.original_size = fsys[src].size,
                   !.output_path = generate_output_path(st, dir, src, now)]

convert_begin_fs(fsys, st, dir, src) ==
    IF begin_raises(fsys, st, dir, src) # "" THEN fsys
    ELSE generate_output_path_fs(fsys, st, dir, src)

\* lines 537-572
convert_error(fsys, st, src, out) ==
    IF OpenError(fsys, src) # "" THEN OpenError(fsys, src) ELSE SaveError(fsys, st, out)

convert_save(t, fsys, st, src) ==
    IF convert_error(fsys, st, src, t.output_path) # ""
    THEN [t EXCEPT !.state = "finished",
                   !.result = FailureResult(src, t.original_size,
                                            convert_error(fsys, st, src, t.output_path))]
    ELSE [t EXCEPT !.state = "saved"]

convert_save_fs(t, fsys, st, src) ==
    IF convert_error(fsys, st, src, t.output_path) # "" THEN fsys
    ELSE Save(fsys, src, t.output_path)

\* a mutant of deletes_original: the paths are not compared
deletes_original_any_path(t, st, src) == st.delete_original

\* line 577
deletes_original(t, st, src) == st.delete_original /\ src # t.output_path

\* lines 574-586
finish_error(t, fsys, st, src) ==
    IF StatRaises(fsys, t.output_path) THEN "FileNotFoundError"
    ELSE IF deletes_original(t, st, src) THEN UnlinkError(fsys, src)
    ELSE ""

convert_finish(t, fsys, st, src) ==
    IF finish_error(t, fsys, st, src) # ""
    THEN [t EXCEPT !.state = "finished",
                   !.result = FailureResult(src, t.original_size,
                                            finish_error(t, fsys, st, src))]
    ELSE [t EXCEPT !.state = "finished",
                   !.result = ConversionResult(src, t.output_path, TRUE, t.original_size,
                                               fsys[t.output_path].size, "")]

convert_finish_fs(t, fsys, st, src) ==
    IF finish_error(t, fsys, st, src) = "" /\ deletes_original(t, st, src)
    THEN Unlink(fsys, src)
    ELSE fsys

(***************************************************************************)
(* ConversionWorker.calculate_resize (lines 598-616).  The ratio is the    *)
(* double nearest to a quotient n / d of two integers; int(x * ratio)      *)
(* truncates the double nearest to the product.                            *)
(***************************************************************************)
\* the widths and heights of the images, and what width_spin and
\* height_spin hold (0 is shown as "Auto", lines 829-840)
ImageDimensions == { 1, 2, 3, 4, 8, 11 }
SpinValues == { 0, 1, 2, 3, 4, 15 }

\* the triples (x, n, d) of these values for which the double x * (n / d)
\* lies below the integer x * n / d: 15 / 11 is 1.3636363636363635 and
\* 11 * (15 / 11) is 14.999999999999998
DoubleBelowInteger == { << 11, 15, 11 >> }

\* int(x * (n / d))
IntOfProduct(x, n, d) ==
    IF << x, n, d >> \in DoubleBelowInteger /\ (x * n) % d = 0
    THEN ((x * n) \div d) - 1
    ELSE (x * n) \div d

calculate_resize(st, size) ==
    LET width == size[1]
        height == size[2]
        new_width == IF st.resize_width # 0 THEN st.resize_width ELSE width
        new_height == IF st.resize_height # 0 THEN st.resize_height ELSE height
        \* min(new_width / width, new_height / height) as a pair (n, d)
        by_width == new_width * height <= new_height * width
        n == IF by_width THEN new_width ELSE new_height
        d == IF by_width THEN width ELSE height
    IN  IF st.maintain_aspect_ratio /\ st.resize_width # 0 /\ st.resize_height = 0
        THEN << new_width, IntOfProduct(height, new_width, width) >>
        ELSE IF st.maintain_aspect_ratio /\ st.resize_height # 0 /\ st.resize_width = 0
        THEN << IntOfProduct(width, new_height, height), new_height >>
        ELSE IF st.maintain_aspect_ratio /\ st.resize_width # 0 /\ st.resize_height # 0
        THEN << IntOfProduct(width, n, d), IntOfProduct(height, n, d) >>
        ELSE << new_width, new_height >>

(***************************************************************************)
(* The thread pool of run() (lines 635-636): ThreadPoolExecutor takes the  *)
(* submitted calls from a FIFO queue and runs at most max_workers of them  *)
(* at a time; leaving the with statement waits for every submitted call.   *)
(***************************************************************************)
Executing == { i \in DOMAIN tasks : tasks[i].state \in {"running", "saved"} }
AllFinished == \A i \in DOMAIN tasks : tasks[i].state = "finished"
ExecutorAlive == run_pc \in {"loop", "exit", "raise_exit"}

\* a mutant of WorkerFree: the pool starts a thread for every submitted call
WorkerAlwaysFree == TRUE

\* a pool thread is free to take the next call
WorkerFree == Cardinality(Executing) < settings.max_workers

TaskBegin(i) ==
    /\ ExecutorAlive
    /\ tasks[i].state = "queued"
    /\ \A j \in 1..(i - 1) : tasks[j].state # "queued"
    /\ WorkerFree
    /\ \E now \in Clocks :
         tasks' = [tasks EXCEPT ![i] = convert_begin(@, fs, settings, Directory, images[i], now)]
    /\ fs' = convert_begin_fs(fs, settings, Directory, images[i])
    /\ UNCHANGED << windows, settings, images, run_pc, is_cancelled, loop_i, results,
                    emitted, guiVars, callVars, tkVars, toolVars >>

TaskConvert(i) ==
    /\ tasks[i].state = "running"
    /\ tasks' = [tasks EXCEPT ![i] = convert_save(@, fs, settings, images[i])]
    /\ fs' = convert_save_fs(tasks[i], fs, settings, images[i])
    /\ UNCHANGED << windows, settings, images, run_pc, is_cancelled, loop_i, results,
                    emitted, guiVars, callVars, tkVars, toolVars >>

TaskFinish(i) ==
    /\ tasks[i].state = "saved"
    /\ tasks' = [tasks EXCEPT ![i] = convert_finish(@, fs, settings, images[i])]
    /\ fs' = convert_finish_fs(tasks[i], fs, settings, images[i])
    /\ UNCHANGED << windows, settings, images, run_pc, is_cancelled, loop_i, results,
                    emitted, guiVars, callVars, tkVars, toolVars >>

(***************************************************************************)
(* ConversionWorker.run (lines 618-661).                                   *)
(***************************************************************************)
\* the signals (lines 462-465)
LogMessage(text, type) == [sig |-> "log_message", text |-> text, type |-> type]
FileConverted(r) == [sig |-> "file_converted", result |-> r]
Progress(current, total) == [sig |-> "progress", current |-> current, total |-> total]
ConversionComplete(rs) == [sig |-> "conversion_complete", results |-> rs]

\* lines 620-636
RunScan ==
    /\ run_pc = "start"
    /\ images' = find_images(fs, Directory, settings, windows)
    /\ IF images' = << >>
       THEN /\ emitted' = emitted \o << LogMessage("Scanning directory", "info"),
                                        LogMessage("No images found", "warning"),
                                        ConversionComplete(results) >>
            /\ run_pc' = "finished"
            /\ tasks' = << >>
       ELSE /\ emitted' = emitted \o << LogMessage("Scanning directory", "info"),
                                        LogMessage("Found images", "info"),
                                        LogMessage("Output format", "info"),
                                        LogMessage("rule", "info") >>
            /\ run_pc' = "loop"
            /\ tasks' = [i \in 1..Len(images') |-> QueuedTask]
    /\ UNCHANGED << fs, windows, settings, is_cancelled, loop_i, results, guiVars, callVars, tkVars, toolVars >>

\* the futures as_completed has not yet handed out
NotYielded == { i \in DOMAIN tasks : ~tasks[i].yielded }

\* a mutant of RunCancelled: the break of line 641 is missing
RunCancelledNoBreak(i) ==
    /\ run_pc = "loop"
    /\ tasks[i].state = "finished" /\ ~tasks[i].yielded
    /\ is_cancelled
    /\ tasks' = [tasks EXCEPT ![i].yielded = TRUE]
    /\ loop_i' = loop_i + 1
    /\ emitted' = Append(emitted, LogMessage("Conversion cancelled by user", "warning"))
    /\ run_pc' = IF NotYielded = {i} THEN "exit" ELSE "loop"
    /\ UNCHANGED << fs, windows, settings, images, is_cancelled, results, guiVars, callVars,
                    tkVars, toolVars >>

\* lines 638-641: the next completed future arrives and the flag is set
RunCancelled(i) ==
    /\ run_pc = "loop"
    /\ tasks[i].state = "finished" /\ ~tasks[i].yielded
    /\ is_cancelled
    /\ tasks' = [tasks EXCEPT ![i].yielded = TRUE]
    /\ loop_i' = loop_i + 1
    /\ emitted' = Append(emitted, LogMessage("Conversion cancelled by user", "warning"))
    /\ run_pc' = "exit"
    /\ UNCHANGED << fs, windows, settings, images, is_cancelled, results, guiVars, callVars, tkVars, toolVars >>

\* line 643: future.result() re-raises what convert_single_image raised
RunResultRaises(i) ==
    /\ run_pc = "loop"
    /\ tasks[i].state = "finished" /\ ~tasks[i].yielded
    /\ ~is_cancelled
    /\ tasks[i].exc # ""
    /\ tasks' = [tasks EXCEPT ![i].yielded = TRUE]
    /\ loop_i' = loop_i + 1
    /\ run_pc' = "raise_exit"
    /\ UNCHANGED << fs, windows, settings, images, is_cancelled, results, emitted,
                    guiVars, callVars, tkVars, toolVars >>

\* a mutant of RunHandleResult: the result of a failure is not recorded
RunHandleResultDropsFailure(i) ==
    /\ run_pc = "loop"
    /\ tasks[i].state = "finished" /\ ~tasks[i].yielded
    /\ ~is_cancelled
    /\ tasks[i].exc = ""
    /\ tasks' = [tasks EXCEPT ![i].yielded = TRUE]
    /\ loop_i' = loop_i + 1
    /\ results' = IF tasks[i].result.success THEN Append(results, tasks[i].result)
                                             ELSE results
    /\ emitted' = emitted \o
          << IF tasks[i].result.success THEN LogMessage("converted", "success")
                                        ELSE LogMessage("failed", "error"),
             FileConverted(tasks[i].result),
             Progress(loop_i + 1, Len(images)) >>
    /\ run_pc' = IF NotYielded = {i} THEN "exit" ELSE "loop"
    /\ UNCHANGED << fs, windows, settings, images, is_cancelled, guiVars, callVars, tkVars, toolVars >>

\* a mutant of RunHandleResult: progress is emitted before file_converted
RunHandleResultProgressFirst(i) ==
    /\ run_pc = "loop"
    /\ tasks[i].state = "finished" /\ ~tasks[i].yielded
    /\ ~is_cancelled
    /\ tasks[i].exc = ""
    /\ tasks' = [tasks EXCEPT ![i].yielded = TRUE]
    /\ loop_i' = loop_i + 1
    /\ results' = Append(results, tasks[i].result)
    /\ emitted' = emitted \o
          << IF tasks[i].result.success THEN LogMessage("converted", "success")
                                        ELSE LogMessage("failed", "error"),
             Progress(loop_i + 1, Len(images)),
             FileConverted(tasks[i].result) >>
    /\ run_pc' = IF NotYielded = {i} THEN "exit" ELSE "loop"
    /\ UNCHANGED << fs, windows, settings, images, is_cancelled, guiVars, callVars, tkVars, toolVars >>

\* lines 643-659; the loop ends after the last future
RunHandleResult(i) ==
    /\ run_pc = "loop"
    /\ tasks[i].state = "finished" /\ ~tasks[i].yielded
    /\ ~is_cancelled
    /\ tasks[i].exc = ""
    /\ tasks' = [tasks EXCEPT ![i].yielded = TRUE]
    /\ loop_i' = loop_i + 1
    /\ results' = Append(results, tasks[i].result)
    /\ emitted' = emitted \o
          << IF tasks[i].result.success THEN LogMessage("converted", "success")
                                        ELSE LogMessage("failed", "error"),
             FileConverted(tasks[i].result),
             Progress(loop_i + 1, Len(images)) >>
    /\ run_pc' = IF NotYielded = {i} THEN "exit" ELSE "loop"
    /\ UNCHANGED << fs, windows, settings, images, is_cancelled, guiVars, callVars, tkVars, toolVars >>

\* a mutant of RunComplete: the executor is left without waiting
RunCompleteNoWait ==
    /\ run_pc = "exit"
    /\ emitted' = Append(emitted, ConversionComplete(results))
    /\ run_pc' = "finished"
    /\ UNCHANGED << fs, windows, settings, images, tasks, is_cancelled, loop_i, results,
                    guiVars, callVars, tkVars, toolVars >>

\* the end of the with statement (executor.shutdown(wait=True)), then line 661
RunComplete ==
    /\ run_pc = "exit"
    /\ AllFinished
    /\ emitted' = Append(emitted, ConversionComplete(results))
    /\ run_pc' = "finished"
    /\ UNCHANGED << fs, windows, settings, images, tasks, is_cancelled, loop_i, results,
                    guiVars, callVars, tkVars, toolVars >>

\* the end of the with statement while an exception propagates: run() ends
\* with that exception, line 661 is not reached
RunRaise ==
    /\ run_pc = "raise_exit"
    /\ AllFinished
    /\ run_pc' = "crashed"
    /\ UNCHANGED << fs, windows, settings, images, tasks, is_cancelled, loop_i, results,
                    emitted, guiVars, callVars, tkVars, toolVars >>

(***************************************************************************)
(* ImageConverterPro: start_conversion (lines 1153-1193), cancel_conversion *)
(* (1195-1199), on_conversion_complete (1217-1241).                        *)
(***************************************************************************)
\* lines 1161-1174
UpdatedSettings(st, w) ==
    [st EXCEPT !.input_format = w.input_format,
               !.output_format = w.output_format,
               !.quality = w.quality,
               !.recursive = w.recursive,
               !.delete_original = w.delete_original,
               !.apply_optimization = w.apply_optimization,
               !.resize_enabled = w.resize_enabled,
               !.resize_width = w.resize_width,
               !.resize_height = w.resize_height,
               !.maintain_aspect_ratio = w.maintain_aspect_ratio,
               !.output_directory = w.output_directory,
               !.add_suffix = w.add_suffix,
               !.max_workers = w.max_workers]

\* a mutant of StartConversion: the handler runs with the button disabled
StartConversionUnguarded ==
    /\ Len(history) < MaxHistory
    /\ settings' = UpdatedSettings(settings, widgets)
    /\ convert_btn' = FALSE
    /\ cancel_btn' = TRUE
    /\ run_pc' = "start"
    /\ is_cancelled' = FALSE
    /\ images' = << >>
    /\ tasks' = << >>
    /\ loop_i' = 0
    /\ results' = << >>
    /\ emitted' = << >>
    /\ handled' = 0
    /\ UNCHANGED << fs, windows, widgets, history, callVars, tkVars, toolVars >>

\* the Start button is pressed; the directory field names the directory "d"
StartConversion ==
    /\ convert_btn
    /\ Len(history) < MaxHistory
    /\ settings' = UpdatedSettings(settings, widgets)
    /\ convert_btn' = FALSE
    /\ cancel_btn' = TRUE
    /\ run_pc' = "start"
    /\ is_cancelled' = FALSE
    /\ images' = << >>
    /\ tasks' = << >>
    /\ loop_i' = 0
    /\ results' = << >>
    /\ emitted' = << >>
    /\ handled' = 0
    /\ UNCHANGED << fs, windows, widgets, history, callVars, tkVars, toolVars >>

\* the Cancel button is pressed: ConversionWorker.cancel (lines 473-475)
CancelConversion ==
    /\ cancel_btn
    /\ run_pc # "none"
    /\ ~is_cancelled
    /\ is_cancelled' = TRUE
    /\ UNCHANGED << fs, windows, settings, images, run_pc, tasks, loop_i, results, emitted,
                    guiVars, callVars, tkVars, toolVars >>

CompleteSignals == { k \in 1..Len(emitted) : emitted[k].sig = "conversion_complete" }

\* add_to_history (lines 1243-1265): the row of a session; of its columns
\* the count "successful/len(results)" and the status are kept
add_to_history(rs) ==
    LET successful == Cardinality({ k \in 1..Len(rs) : rs[k].success })
    IN  [ converted |-> successful,
          total |-> Len(rs),
          status |-> IF successful = Len(rs) THEN "Success" ELSE "Partial" ]

\* the queued conversion_complete signal reaches its slot, which ends with
\* add_to_history(results)
OnConversionComplete ==
    /\ handled < Cardinality(CompleteSignals)
    /\ handled' = handled + 1
    /\ convert_btn' = TRUE
    /\ cancel_btn' = FALSE
    /\ \E c \in CompleteSignals :
         history' = Append(history, add_to_history(emitted[c].results))
    /\ UNCHANGED << fs, windows, settings, images, workerVars, widgets, callVars, tkVars, toolVars >>

(***************************************************************************)
(* One call of find_images() on a directory tree.                          *)
(***************************************************************************)
\* the values of the input format: the keys of INPUT_FORMATS, and a value
\* that is no key
InputFormatValues == DOMAIN INPUT_FORMATS \cup {"HEIC"}

InitFind ==
    /\ fs \in FileSystems(Tree, MaxFiles)
    /\ windows \in BOOLEAN
    /\ settings \in { [DefaultSettings EXCEPT !.input_format = f, !.recursive = r] :
                        f \in InputFormatValues, r \in BOOLEAN }
    /\ images = << >>
    /\ NoWorker
    /\ convert_btn = TRUE /\ cancel_btn = FALSE /\ handled = 0 /\ history = << >>
    /\ widgets = DefaultWidgets
    /\ call_pc = "ready"
    /\ gp_source = << >>
    /\ gp_now = NoClock
    /\ gp_result = << >>
    /\ save_call = NoSaveCall
    /\ NoTools
    /\ TkConstructed

FindImagesCall ==
    /\ call_pc = "ready"
    /\ images' = find_images(fs, Directory, settings, windows)
    /\ call_pc' = "returned"
    /\ UNCHANGED << fs, windows, settings, workerVars, guiVars, gp_source, gp_now, gp_result, save_call, tkVars, toolVars >>

NextFind == FindImagesCall

SpecFind == InitFind /\ [][NextFind]_vars

(***************************************************************************)
(* One call of generate_output_path(source).                               *)
(***************************************************************************)
\* "Filename Suffix" is a free text field (lines 1018-1020, 1173)
SuffixValues == { << >>, << "_", "c" >>, << "/", "t" >> }
PatternValues == { << >>,
                   << "{", "n", "a", "m", "e", "}", "_", "r" >>,
                   << "{", "d", "a", "t", "e", "}", "{", "t", "i", "m", "e", "}" >> }
\* "Output Directory" (lines 1008-1010, 1172): empty, or the directory "o"
OutputDirectoryValues == { << >>, << "o" >> }

\* nothing at "o", or a regular file in its place
OutputSites == { << >>, (<< << "o" >> >> :> Entry("image", 1, 1)) }

InitPath ==
    /\ fs \in OutputSites
    /\ windows = FALSE
    /\ settings \in { [DefaultSettings EXCEPT !.output_format = f, !.rename_pattern = r,
                                              !.add_suffix = x, !.output_directory = o] :
                        f \in DOMAIN OUTPUT_FORMATS, r \in PatternValues,
                        x \in SuffixValues, o \in OutputDirectoryValues }
    /\ images = << >>
    /\ NoWorker
    /\ convert_btn = TRUE /\ cancel_btn = FALSE /\ handled = 0 /\ history = << >>
    /\ widgets = DefaultWidgets
    /\ call_pc = "ready"
    /\ gp_source \in DOMAIN Tree
    /\ gp_now \in Clocks
    /\ gp_result = << >>
    /\ save_call = NoSaveCall
    /\ NoTools
    /\ TkConstructed

GenerateOutputPathReturn ==
    /\ call_pc = "ready"
    /\ ~generate_output_path_raises(fs, settings, Directory, gp_source)
    /\ gp_result' = generate_output_path(settings, Directory, gp_source, gp_now)
    /\ fs' = generate_output_path_fs(fs, settings, Directory, gp_source)
    /\ call_pc' = "returned"
    /\ UNCHANGED << windows, settings, images, workerVars, guiVars, gp_source, gp_now, save_call, tkVars, toolVars >>

GenerateOutputPathRaise ==
    /\ call_pc = "ready"
    /\ generate_output_path_raises(fs, settings, Directory, gp_source)
    /\ call_pc' = "raised"
    /\ UNCHANGED << fs, windows, settings, images, workerVars, guiVars, gp_source, gp_now, gp_result, save_call, tkVars, toolVars >>

NextPath == GenerateOutputPathReturn \/ GenerateOutputPathRaise

SpecPath == InitPath /\ [][NextPath]_vars

(***************************************************************************)
(* One call of convert_single_image(source), lines 537-572: the image is   *)
(* opened and saved in the output format.                                  *)
(***************************************************************************)
\* the quality slider ranges over 1..100 and starts at 80 (lines 787-789)
QualityValues == { 1, 80, 100 }

InitSave ==
    /\ fs = Tree
    /\ windows = FALSE
    /\ settings \in { [DefaultSettings EXCEPT !.output_format = f, !.quality = q,
                                              !.apply_optimization = o] :
                        f \in DOMAIN OUTPUT_FORMATS, q \in QualityValues, o \in BOOLEAN }
    /\ images = << >>
    /\ NoWorker
    /\ convert_btn = TRUE /\ cancel_btn = FALSE /\ handled = 0 /\ history = << >>
    /\ widgets = DefaultWidgets
    /\ call_pc = "ready"
    /\ gp_source \in { p \in DOMAIN Tree : IsFile(Tree, p) }
    /\ gp_now \in Clocks
    /\ gp_result = << >>
    /\ save_call = NoSaveCall
    /\ NoTools
    /\ TkConstructed

\* img.save() writes the output file
ConvertSaveReturn ==
    /\ call_pc = "ready"
    /\ LET out == generate_output_path(settings, Directory, gp_source, gp_now)
       IN  /\ convert_error(fs, settings, gp_source, out) = ""
           /\ gp_result' = out
           /\ fs' = Save(fs, gp_source, out)
    /\ save_call' = SaveCall(settings)
    /\ call_pc' = "returned"
    /\ UNCHANGED << windows, settings, images, workerVars, guiVars, gp_source, gp_now, tkVars, toolVars >>

\* Image.open() raises, or img.save() is called and raises
ConvertSaveRaise ==
    /\ call_pc = "ready"
    /\ LET out == generate_output_path(settings, Directory, gp_source, gp_now)
       IN  convert_error(fs, settings, gp_source, out) # ""
    /\ save_call' = IF OpenError(fs, gp_source) = "" THEN SaveCall(settings) ELSE NoSaveCall
    /\ call_pc' = "raised"
    /\ UNCHANGED << fs, windows, settings, images, workerVars, guiVars, gp_source, gp_now,
                    gp_result, tkVars, toolVars >>

NextSave == ConvertSaveReturn \/ ConvertSaveRaise

SpecSave == InitSave /\ [][NextSave]_vars

(***************************************************************************)
(* One call of calculate_resize(img.size), line 549.                       *)
(***************************************************************************)
InitResize ==
    /\ fs = << >>
    /\ windows = FALSE
    /\ settings \in { [DefaultSettings EXCEPT !.resize_enabled = TRUE, !.resize_width = w,
                                              !.resize_height = h,
                                              !.maintain_aspect_ratio = m] :
                        w \in SpinValues, h \in SpinValues, m \in BOOLEAN }
    /\ images = << >>
    /\ NoWorker
    /\ convert_btn = TRUE /\ cancel_btn = FALSE /\ handled = 0 /\ history = << >>
    /\ widgets = DefaultWidgets
    /\ call_pc = "ready"
    /\ gp_source = << >>
    /\ gp_now = NoClock
    /\ gp_result = << >>
    /\ save_call = NoSaveCall
    /\ rz_original_size \in ImageDimensions \X ImageDimensions
    /\ rz_new_size = << >>
    /\ rename_dir_input = << >>
    /\ rename_pattern_input = << >>
    /\ rename_calls = << >>
    /\ dup_dir_input = << >>
    /\ duplicate_list = << >>
    /\ message_box = NoMessageBox
    /\ fs_before = << >>
    /\ TkConstructed

CalculateResizeCall ==
    /\ call_pc = "ready"
    /\ rz_new_size' = calculate_resize(settings, rz_original_size)
    /\ call_pc' = "returned"
    /\ UNCHANGED << fs, windows, settings, images, workerVars, guiVars, gp_source, gp_now,
                    gp_result, save_call, tkVars, rz_original_size, rename_dir_input,
                    rename_pattern_input, rename_calls, dup_dir_input, duplicate_list,
                    message_box, fs_before >>

NextResize == CalculateResizeCall

SpecResize == InitResize /\ [][NextResize]_vars

(***************************************************************************)
(* ImageConverterPro.batch_rename (lines 1271-1306).                       *)
(***************************************************************************)
\* line 1286
BATCH_EXTENSIONS == { ExtPng, ExtJpg, ExtJpeg, ExtWebp, ExtBmp, ExtGif, ExtTiff }

\* str(n), n >= 0
RECURSIVE Str(_)
Str(n) == IF n < 10 THEN << Digits[n + 1] >>
          ELSE Str(n \div 10) \o << Digits[(n % 10) + 1] >>

\* str.zfill(width)
zfill(s, width) == IF Len(s) >= width THEN s
                   ELSE [i \in 1..(width - Len(s)) |-> "0"] \o s

\* Path.iterdir(): the entries directly in dir, whatever their kind
IterDir(fsys, dir) ==
    { SubSeq(p, 1, Len(dir) + 1) : p \in { q \in DOMAIN fsys : IsUnder(q, dir) } }

\* line 1287: no is_file() test
batch_files(fsys, dir) ==
    { f \in IterDir(fsys, dir) : Lower(PathSuffix(f)) \in BATCH_EXTENSIONS }

\* what two paths are compared by: a WindowsPath compares case-folded
SortKey(p, win) == IF win THEN [i \in 1..Len(p) |-> Lower(p[i])] ELSE p

\* sorted(files)
RECURSIVE sorted(_, _)
sorted(files, win) ==
    IF files = {} THEN << >>
    ELSE LET m == CHOOSE x \in files :
                      \A y \in files : ~PathLess(SortKey(y, win), SortKey(x, win))
         IN  << m >> \o sorted(files \ {m}, win)

\* lines 1291-1295
batch_new_name(pattern, file, counter, now) ==
    Replace(Replace(Replace(Replace(pattern,
                                    << "{", "n", "a", "m", "e", "}" >>, PathStem(file)),
                            << "{", "d", "a", "t", "e", "}" >>, now.date),
                    << "{", "t", "i", "m", "e", "}" >>, now.time),
            << "{", "c", "o", "u", "n", "t", "e", "r", "}" >>, zfill(Str(counter), 4))

\* line 1297
batch_new_path(pattern, file, counter, now) ==
    PathJoin(PathParent(file), batch_new_name(pattern, file, counter, now) \o PathSuffix(file))

\* the exception Path.rename(dst) raises, "" when it returns: os.rename()
\* replaces an existing file silently on POSIX and refuses on Windows
RenameError(fsys, src, dst, win) ==
    IF ~Exists(fsys, src) THEN "FileNotFoundError"
    ELSE IF src = dst THEN ""
    ELSE IF PathParent(dst) # PathParent(src) /\ ~DirExists(fsys, PathParent(dst))
         THEN "FileNotFoundError"
    ELSE IF ~Exists(fsys, dst) THEN ""
    ELSE IF win THEN "FileExistsError"
    ELSE IF fsys[src].kind = "dir" /\ fsys[dst].kind # "dir" THEN "NotADirectoryError"
    ELSE IF fsys[src].kind # "dir" /\ fsys[dst].kind = "dir" THEN "IsADirectoryError"
    ELSE ""

\* the file system after src.rename(dst) returned
Rename(fsys, src, dst) ==
    [p \in (DOMAIN fsys \ {src}) \cup {dst} |-> IF p = dst THEN fsys[src] ELSE fsys[p]]

\* lines 1289-1299: the loop, left by the first exception
RECURSIVE rename_loop(_, _, _, _, _, _, _)
rename_loop(fsys, files, counter, calls, pattern, now, win) ==
    IF files = << >>
    THEN [fs |-> fsys, calls |-> calls, counter |-> counter, error |-> ""]
    ELSE LET file == Head(files)
             new_path == batch_new_path(pattern, file, counter, now)
             e == RenameError(fsys, file, new_path, win)
         IN  IF e # ""
             THEN [fs |-> fsys, calls |-> calls, counter |-> counter, error |-> e]
             ELSE rename_loop(Rename(fsys, file, new_path), Tail(files), counter + 1,
                              Append(calls, [from |-> file, to |-> new_path]),
                              pattern, now, win)

\* os.path.isdir(directory), lines 1276 and 1312
IsDirectoryInput(fsys, directory) ==
    directory # << >> /\ DirExists(fsys, SplitPath(directory, << >>))

\* the entries a batch operation is tried on
BatchTree ==
    (<< << "d" >>, << "a", ".", "p", "n", "g" >> >> :> Entry("image", 1, 1)) @@
    (<< << "d" >>, << "i", "_", "0", "0", "0", "1", ".", "p", "n", "g" >> >>
        :> Entry("image", 2, 2)) @@
    (<< << "d" >>, << "i", "_", "0", "0", "0", "2", ".", "p", "n", "g" >> >>
        :> Entry("image", 3, 3)) @@
    (<< << "d" >>, << "b", ".", "j", "p", "g" >> >> :> Entry("image", 4, 4)) @@
    (<< << "d" >>, << "g", ".", "G", "I", "F" >> >> :> Entry("image", 5, 5)) @@
    (<< << "d" >>, << "c", ".", "p", "n", "g" >> >> :> Entry("dir", 0, 0)) @@
    (<< << "d" >>, << "n", ".", "t", "x", "t" >> >> :> Entry("image", 6, 6)) @@
    (<< << "d" >>, << "s" >>, << "k", ".", "p", "n", "g" >> >> :> Entry("image", 7, 7))

\* what the directory field of a batch operation may hold: nothing, a path
\* that does not exist, the directory
DirectoryInputs == { << >>, << "q" >>, << "d" >> }

\* what the pattern field may hold (placeholder text 'image_{counter}')
BatchPatterns == { << >>,
                   << "i", "_", "{", "c", "o", "u", "n", "t", "e", "r", "}" >>,
                   << "{", "n", "a", "m", "e", "}", "_",
                      "{", "c", "o", "u", "n", "t", "e", "r", "}" >>,
                   << "{", "n", "a", "m", "e", "}" >>,
                   << "x" >> }

InitRename ==
    /\ fs \in FileSystems(BatchTree, MaxFiles)
    /\ windows \in BOOLEAN
    /\ settings = DefaultSettings
    /\ images = << >>
    /\ NoWorker
    /\ Constructed
    /\ widgets = DefaultWidgets
    /\ call_pc = "ready"
    /\ gp_source = << >>
    /\ gp_now \in Clocks
    /\ gp_result = << >>
    /\ save_call = NoSaveCall
    /\ rz_original_size = << >>
    /\ rz_new_size = << >>
    /\ rename_dir_input \in DirectoryInputs
    /\ rename_pattern_input \in BatchPatterns
    /\ rename_calls = << >>
    /\ dup_dir_input = << >>
    /\ duplicate_list = << >>
    /\ message_box = NoMessageBox
    /\ fs_before = << >>
    /\ TkConstructed

\* one press of the 'Rename Files' button
BatchRename ==
    /\ call_pc = "ready"
    /\ call_pc' = "returned"
    /\ fs_before' = fs
    /\ IF ~IsDirectoryInput(fs, rename_dir_input)
       THEN /\ message_box' = MessageBox("warning", "directory", 0)
            /\ UNCHANGED << fs, rename_calls >>
       ELSE IF rename_pattern_input = << >>
       THEN /\ message_box' = MessageBox("warning", "pattern", 0)
            /\ UNCHANGED << fs, rename_calls >>
       ELSE LET path == SplitPath(rename_dir_input, << >>)
                r == rename_loop(fs, sorted(batch_files(fs, path), windows), 1, << >>,
                                 rename_pattern_input, gp_now, windows)
            IN  /\ fs' = r.fs
                /\ rename_calls' = r.calls
                /\ message_box' = IF r.error = ""
                                  THEN MessageBox("information", "Success", r.counter - 1)
                                  ELSE MessageBox("critical", r.error, 0)
    /\ UNCHANGED << windows, settings, images, workerVars, guiVars, gp_source, gp_now,
                    gp_result, save_call, tkVars, rz_original_size, rz_new_size,
                    rename_dir_input, rename_pattern_input, dup_dir_input,
                    duplicate_list >>

NextRename == BatchRename

SpecRename == InitRename /\ [][NextRename]_vars

\* the image files of the directory when the button was pressed, sorted
ImageFilesBefore ==
    sorted({ f \in batch_files(fs_before, SplitPath(rename_dir_input, << >>)) :
               IsFile(fs_before, f) }, windows)

\* C23: batch_rename renames the image files of the directory in sorted name
\* order, the i-th to the pattern filled with counter i (from 1, padded to 4
\* digits) and the file's own extension; the number of the success message is
\* the number of files that are found under their new name afterwards; with an
\* invalid directory or an empty pattern nothing is renamed.
C23_BatchRename ==
    call_pc = "returned" =>
        LET files == ImageFilesBefore
            new_path(i) == batch_new_path(rename_pattern_input, files[i], i, gp_now)
        IN  /\ message_box.icon = "information" =>
                  /\ rename_calls = [i \in 1..Len(files) |->
                                       [from |-> files[i], to |-> new_path(i)]]
                  /\ \A i \in 1..Len(files) :
                        PathSuffix(rename_calls[i].to) = PathSuffix(files[i])
                  /\ message_box.count =
                        Cardinality({ i \in 1..Len(files) :
                                        /\ Exists(fs, new_path(i))
                                        /\ fs[new_path(i)] = fs_before[files[i]] })
            /\ ~IsDirectoryInput(fs_before, rename_dir_input) \/ rename_pattern_input = << >>
                  => fs = fs_before /\ rename_calls = << >>

(***************************************************************************)
(* ImageConverterPro.find_duplicates (lines 1308-1349) and get_file_hash   *)
(* (lines 1351-1358).                                                      *)
(***************************************************************************)
\* path.rglob('*') yields every entry under dir, directories and links included
\* lines 1322-1323: the entries get_file_hash is called on
dup_scanned(fsys, dir) ==
    { f \in UNION { { SubSeq(p, 1, k) : k \in 1..Len(p) } :
                      p \in { q \in DOMAIN fsys : IsUnder(q, dir) } } :
        IsUnder(f, dir) /\ Lower(PathSuffix(f)) \in BATCH_EXTENSIONS }

\* the exception open(file_path, 'rb') raises, "" when the file is read
HashError(fsys, p) ==
    IF StatRaises(fsys, p) THEN "FileNotFoundError"
    ELSE IF fsys[p].kind = "dir" THEN "IsADirectoryError"
    ELSE ""

\* hasher.hexdigest(): two files have the same digest exactly when they hold
\* the same bytes, and they hold the same bytes exactly when their entries
\* are equal
get_file_hash(fsys, p) == fsys[p]

\* the orders in which rglob may yield a set of entries
RECURSIVE ScanOrders(_)
ScanOrders(S) ==
    IF S = {} THEN { << >> }
    ELSE UNION { { << x >> \o o : o \in ScanOrders(S \ {x}) } : x \in S }

\* lines 1322-1328: hash_dict, a dict in insertion order
RECURSIVE hash_dict(_, _, _)
hash_dict(fsys, files, groups) ==
    IF files = << >> THEN groups
    ELSE LET file == Head(files)
             file_hash == get_file_hash(fsys, file)
             known == { k \in 1..Len(groups) : groups[k].hash = file_hash }
         IN  hash_dict(fsys, Tail(files),
                       IF known # {}
                       THEN [groups EXCEPT ![CHOOSE k \in known : TRUE].files =
                                               Append(@, file)]
                       ELSE Append(groups, [hash |-> file_hash, files |-> << file >>]))

\* an item of duplicate_list: the line 'Found n groups', the header of group
\* n, a file (its tool tip is the path), or the line 'No duplicates found!'
ListItem(kind, n, path) == [kind |-> kind, n |-> n, path |-> path]

\* lines 1330-1338
RECURSIVE list_groups(_, _, _)
list_groups(groups, duplicates_found, items) ==
    IF groups = << >> THEN [duplicates_found |-> duplicates_found, items |-> items]
    ELSE LET files == Head(groups).files
         IN  IF Len(files) > 1
             THEN list_groups(Tail(groups), duplicates_found + 1,
                              Append(items, ListItem("group", duplicates_found + 1, << >>))
                                \o [i \in 1..Len(files) |-> ListItem("file", 0, files[i])])
             ELSE list_groups(Tail(groups), duplicates_found, items)

\* lines 1330-1345: what the list holds after a scan in the given order
duplicate_items(fsys, order) ==
    LET r == list_groups(hash_dict(fsys, order, << >>), 0, << >>)
    IN  IF r.duplicates_found = 0
        THEN Append(r.items, ListItem("none", 0, << >>))
        ELSE << ListItem("found", r.duplicates_found, << >>) >> \o r.items

\* the entries a search for duplicates is tried on
DupTree ==
    (<< << "d" >>, << "a", ".", "p", "n", "g" >> >> :> Entry("image", 1, 1)) @@
    (<< << "d" >>, << "b", ".", "p", "n", "g" >> >> :> Entry("image", 1, 1)) @@
    (<< << "d" >>, << "s" >>, << "k", ".", "P", "N", "G" >> >> :> Entry("image", 1, 1)) @@
    (<< << "d" >>, << "b", ".", "j", "p", "g" >> >> :> Entry("image", 4, 4)) @@
    (<< << "d" >>, << "s" >>, << "m", ".", "j", "p", "g" >> >> :> Entry("image", 4, 4)) @@
    (<< << "d" >>, << "n", ".", "t", "x", "t" >> >> :> Entry("image", 1, 1)) @@
    (<< << "d" >>, << "c", ".", "p", "n", "g" >> >> :> Entry("dir", 0, 0)) @@
    (<< << "d" >>, << "e", ".", "p", "n", "g" >> >> :> Entry("link", 0, 0))

InitDup ==
    /\ fs \in FileSystems(DupTree, MaxDupFiles)
    /\ windows = FALSE
    /\ settings = DefaultSettings
    /\ images = << >>
    /\ NoWorker
    /\ Constructed
    /\ widgets = DefaultWidgets
    /\ call_pc = "ready"
    /\ gp_source = << >>
    /\ gp_now = NoClock
    /\ gp_result = << >>
    /\ save_call = NoSaveCall
    /\ rz_original_size = << >>
    /\ rz_new_size = << >>
    /\ rename_dir_input = << >>
    /\ rename_pattern_input = << >>
    /\ rename_calls = << >>
    /\ dup_dir_input \in DirectoryInputs
    /\ duplicate_list \in { << >>, << ListItem("none", 0, << >>) >> }
    /\ message_box = NoMessageBox
    /\ fs_before = << >>
    /\ TkConstructed

\* one press of the 'Find Duplicates' button
FindDuplicates ==
    /\ call_pc = "ready"
    /\ call_pc' = "returned"
    /\ fs_before' = fs
    /\ IF ~IsDirectoryInput(fs, dup_dir_input)
       THEN /\ message_box' = MessageBox("warning", "directory", 0)
            /\ UNCHANGED duplicate_list
       ELSE LET scanned == dup_scanned(fs, SplitPath(dup_dir_input, << >>))
                unread == { f \in scanned : HashError(fs, f) # "" }
            IN  IF unread # {}
                THEN /\ \E f \in unread :
                          message_box' = MessageBox("critical", HashError(fs, f), 0)
                     /\ duplicate_list' = << >>
                ELSE /\ \E order \in ScanOrders(scanned) :
                          duplicate_list' = duplicate_items(fs, order)
                     /\ UNCHANGED message_box
    /\ UNCHANGED << fs, windows, settings, images, workerVars, guiVars, gp_source, gp_now,
                    gp_result, save_call, tkVars, rz_original_size, rz_new_size,
                    rename_dir_input, rename_pattern_input, rename_calls, dup_dir_input >>

NextDup == FindDuplicates

SpecDup == InitDup /\ [][NextDup]_vars

\* the image files under the searched directory
DupImageFiles ==
    { f \in dup_scanned(fs, SplitPath(dup_dir_input, << >>)) : IsFile(fs, f) }

\* the files that hold the same bytes as f
SameContent(f) == { g \in DupImageFiles : fs[g] = fs[f] }

\* the groups duplicate_list shows: the files listed under each group header
ListedGroups ==
    LET header(i) == CHOOSE j \in 1..i :
                         /\ duplicate_list[j].kind = "group"
                         /\ \A k \in (j + 1)..i : duplicate_list[k].kind # "group"
    IN  { { duplicate_list[i].path :
              i \in { k \in j..Len(duplicate_list) :
                        duplicate_list[k].kind = "file" /\ header(k) = j } } :
          j \in { k \in 1..Len(duplicate_list) : duplicate_list[k].kind = "group" } }

\* C24: after find_duplicates on a directory, the groups listed are exactly
\* the sets of image files with the same content that hold two or more files,
\* every listed file is listed once, the line 'Found n groups' reports the
\* number of those sets, and 'No duplicates found' is shown exactly when there
\* is none.
C24_FindDuplicates ==
    call_pc = "returned" /\ IsDirectoryInput(fs, dup_dir_input) =>
        LET groups == { SameContent(f) : f \in DupImageFiles }
            duplicates == { g \in groups : Cardinality(g) >= 2 }
            shown(kind) == { i \in 1..Len(duplicate_list) : duplicate_list[i].kind = kind }
        IN  /\ \A f \in DupImageFiles :
                  Cardinality({ g \in groups : f \in g }) = 1
            /\ ListedGroups = duplicates
            /\ \A i, j \in shown("file") :
                  duplicate_list[i].path = duplicate_list[j].path => i = j
            /\ Cardinality(shown("group")) = Cardinality(duplicates)
            /\ duplicates # {} =>
                  duplicate_list[1] = ListItem("found", Cardinality(duplicates), << >>)
            /\ shown("none") # {} <=> duplicates = {}

(***************************************************************************)
(* The main window and its worker: the conversion pipeline.                *)
(***************************************************************************)
\* the entries of Tree a conversion is run on
PipelineTree ==
    Restrict(Tree, { << << "d" >>, << "a", ".", "p", "n", "g" >> >>,
                     << << "d" >>, << "a", ".", "j", "p", "g" >> >>,
                     << << "d" >>, << "a", ".", "w", "e", "b", "p" >> >>,
                     << << "d" >>, << "s" >>, << "b", ".", "P", "N", "G" >> >>,
                     << << "d" >>, << "c", ".", "p", "n", "g" >> >>,
                     << << "d" >>, << "e", ".", "p", "n", "g" >> >> })

\* what the widgets may hold when Start is pressed: the spin box of the
\* workers starts at 1 (line 1030)
WidgetValues ==
    { [DefaultWidgets EXCEPT !.output_format = f, !.delete_original = d,
                             !.output_directory = o, !.max_workers = n] :
        f \in {"WebP", "JPEG"}, d \in BOOLEAN, o \in OutputDirectoryValues,
        n \in 1..MaxWorkers }

Init ==
    /\ widgets \in WidgetValues
    /\ \E tree \in FileSystems(PipelineTree, MaxFiles), site \in OutputSites :
         /\ site # << >> => widgets.output_directory # << >>
         /\ fs = tree @@ site
    /\ windows \in BOOLEAN
    /\ images = << >>
    /\ NoWorker
    /\ Constructed
    /\ call_pc = "none"
    /\ gp_source = << >>
    /\ gp_now = NoClock
    /\ gp_result = << >>
    /\ save_call = NoSaveCall
    /\ NoTools
    /\ TkConstructed

Next ==
    \/ StartConversion
    \/ CancelConversion
    \/ OnConversionComplete
    \/ RunScan
    \/ \E i \in DOMAIN tasks : RunCancelled(i)
    \/ \E i \in DOMAIN tasks : RunResultRaises(i)
    \/ \E i \in DOMAIN tasks : RunHandleResult(i)
    \/ RunComplete
    \/ RunRaise
    \/ \E i \in DOMAIN tasks : TaskBegin(i)
    \/ \E i \in DOMAIN tasks : TaskConvert(i)
    \/ \E i \in DOMAIN tasks : TaskFinish(i)

Spec == Init /\ [][Next]_vars

(***************************************************************************)
(* The main window with its input widgets in use: the user changes them at *)
(* any time, start_conversion reads them.                                  *)
(***************************************************************************)
\* the entries of Tree the window is run on
GuiTree ==
    Restrict(Tree, { << << "d" >>, << "a", ".", "p", "n", "g" >> >>,
                     << << "d" >>, << "e", ".", "p", "n", "g" >> >> })

\* the user changes the output format, the delete_original check box, the
\* output directory or the number of workers (lines 772-808, 1008-1033)
EditWidgets ==
    /\ widgets' \in WidgetValues \ {widgets}
    /\ UNCHANGED << fs, windows, settings, images, workerVars, convert_btn, cancel_btn,
                    handled, history, callVars, tkVars, toolVars >>

InitGui ==
    /\ widgets \in WidgetValues
    /\ fs \in FileSystems(GuiTree, MaxFiles)
    /\ windows = FALSE
    /\ images = << >>
    /\ NoWorker
    /\ Constructed
    /\ call_pc = "none"
    /\ gp_source = << >>
    /\ gp_now = NoClock
    /\ gp_result = << >>
    /\ save_call = NoSaveCall
    /\ NoTools
    /\ TkConstructed

NextGui == Next \/ EditWidgets

SpecGui == InitGui /\ [][NextGui]_vars

(***************************************************************************)
(* The Tk converter, conversor_webp.py.                                    *)
(***************************************************************************)
\* the classes an "except (OSError, ValueError)" clause catches
CaughtByOSErrorValueError ==
    { "OSError", "FileNotFoundError", "FileExistsError", "IsADirectoryError",
      "UnidentifiedImageError", "ValueError" }

\* line 139
extensoes_validas == { ExtPng, ExtJpg, ExtJpeg }

\* line 153
TkSelected(fsys, arquivo) ==
    IsFile(fsys, arquivo) /\ Lower(PathSuffix(arquivo)) \in extensoes_validas

\* line 158: arquivo.with_suffix('.webp')
arquivo_saida(arquivo) == Append(PathParent(arquivo), PathStem(arquivo) \o ExtWebp)

\* the exception lines 156-185 raise for arquivo, "" when they convert it
TkConvertError(fsys, arquivo) ==
    IF OpenError(fsys, arquivo) # "" THEN OpenError(fsys, arquivo)
    ELSE IF IsDir(fsys, arquivo_saida(arquivo)) THEN "IsADirectoryError"
    ELSE ""

\* escolher_diretorio (lines 94-99): the directory "d" is chosen
EscolherDiretorio ==
    /\ Len(tk_log) < MaxIdleLog
    /\ diretorio' = TRUE
    /\ tk_log' = Append(tk_log, "info")
    /\ UNCHANGED << fs, windows, settings, images, workerVars, guiVars, callVars,
                    convertendo, btn_converter, progress_on, tk_pc, tk_todo,
                    convertidos, erros, total_economia, toolVars >>

\* iniciar_conversao (lines 112-133), the button pressed with no directory
IniciarSemDiretorio ==
    /\ btn_converter
    /\ ~diretorio
    /\ Len(tk_log) < MaxIdleLog
    /\ tk_log' = Append(tk_log, "erro")
    /\ UNCHANGED << fs, windows, settings, images, workerVars, guiVars, callVars,
                    diretorio, convertendo, btn_converter, progress_on, tk_pc, tk_todo,
                    convertidos, erros, total_economia, toolVars >>

\* a mutant of IniciarConversao: convertendo is not tested and the button
\* not disabled
IniciarConversaoSemGuarda ==
    /\ diretorio
    /\ tk_log' = << >>
    /\ convertendo' = TRUE
    /\ btn_converter' = btn_converter
    /\ progress_on' = TRUE
    /\ tk_pc' = "start"
    /\ UNCHANGED << fs, windows, settings, images, workerVars, guiVars, callVars,
                    diretorio, tk_todo, convertidos, erros, total_economia, toolVars >>

\* iniciar_conversao (lines 112-133), a thread is started
IniciarConversao ==
    /\ btn_converter
    /\ diretorio
    /\ ~convertendo
    /\ tk_log' = << >>
    /\ convertendo' = TRUE
    /\ btn_converter' = FALSE
    /\ progress_on' = TRUE
    /\ tk_pc' = "start"
    /\ UNCHANGED << fs, windows, settings, images, workerVars, guiVars, callVars,
                    diretorio, tk_todo, convertidos, erros, total_economia, toolVars >>

\* converter_imagens, lines 138-152: the counters, the header of the log,
\* and rglob('*') over the directory
ConverterInicio ==
    /\ tk_pc = "start"
    /\ convertidos' = 0
    /\ erros' = 0
    /\ total_economia' = 0
    /\ tk_log' = tk_log \o << "info", "info", "normal" >>
    /\ tk_todo' = { p \in DOMAIN fs : IsUnder(p, Directory) }
    /\ tk_pc' = "loop"
    /\ UNCHANGED << fs, windows, settings, images, workerVars, guiVars, callVars,
                    diretorio, convertendo, btn_converter, progress_on, toolVars >>

\* line 147: path_origem.resolve() raises an OSError (a relative path whose
\* working directory is gone); the except clause of lines 202-203 logs it
\* and the finally clause (lines 205-209) runs
ConverterFatal ==
    /\ tk_pc = "start"
    /\ convertidos' = 0
    /\ erros' = 0
    /\ total_economia' = 0
    /\ tk_log' = Append(tk_log, "erro")
    /\ convertendo' = FALSE
    /\ btn_converter' = TRUE
    /\ progress_on' = FALSE
    /\ tk_pc' = "fatal"
    /\ UNCHANGED << fs, windows, settings, images, workerVars, guiVars, callVars,
                    diretorio, tk_todo, toolVars >>

\* lines 152-153: an entry the filter rejects
ConverterIgnora(arquivo) ==
    /\ tk_pc = "loop"
    /\ arquivo \in tk_todo
    /\ ~TkSelected(fs, arquivo)
    /\ tk_todo' = tk_todo \ {arquivo}
    /\ UNCHANGED << fs, windows, settings, images, workerVars, guiVars, callVars,
                    diretorio, convertendo, btn_converter, progress_on, tk_pc,
                    convertidos, erros, total_economia, tk_log, toolVars >>

\* lines 154-185: a file is converted
ConverterConverte(arquivo) ==
    /\ tk_pc = "loop"
    /\ arquivo \in tk_todo
    /\ TkSelected(fs, arquivo)
    /\ TkConvertError(fs, arquivo) = ""
    /\ fs' = Save(fs, arquivo, arquivo_saida(arquivo))
    /\ LET economia == fs'[arquivo].size - fs'[arquivo_saida(arquivo)].size
       IN  total_economia' = IF economia > 0 THEN total_economia + economia
                                             ELSE total_economia
    /\ tk_log' = Append(tk_log, "sucesso")
    /\ convertidos' = convertidos + 1
    /\ tk_todo' = tk_todo \ {arquivo}
    /\ UNCHANGED << windows, settings, images, workerVars, guiVars, callVars,
                    diretorio, convertendo, btn_converter, progress_on, tk_pc, erros, toolVars >>

\* lines 187-189: the except clause of the loop body
ConverterErro(arquivo) ==
    /\ tk_pc = "loop"
    /\ arquivo \in tk_todo
    /\ TkSelected(fs, arquivo)
    /\ TkConvertError(fs, arquivo) \in CaughtByOSErrorValueError
    /\ tk_log' = Append(tk_log, "erro")
    /\ erros' = erros + 1
    /\ tk_todo' = tk_todo \ {arquivo}
    /\ UNCHANGED << fs, windows, settings, images, workerVars, guiVars, callVars,
                    diretorio, convertendo, btn_converter, progress_on, tk_pc,
                    convertidos, total_economia, toolVars >>

\* a mutant of ConverterAborta: the finally clause is missing
ConverterAbortaSemFinally(arquivo) ==
    /\ tk_pc = "loop"
    /\ arquivo \in tk_todo
    /\ TkSelected(fs, arquivo)
    /\ TkConvertError(fs, arquivo) # ""
    /\ TkConvertError(fs, arquivo) \notin CaughtByOSErrorValueError
    /\ tk_pc' = "raised"
    /\ UNCHANGED << fs, windows, settings, images, workerVars, guiVars, callVars,
                    diretorio, convertendo, btn_converter, progress_on, tk_todo,
                    convertidos, erros, total_economia, tk_log, toolVars >>

\* an exception neither except clause (lines 187, 202) catches leaves the
\* loop; the finally clause (lines 205-209) runs and the thread ends with it
ConverterAborta(arquivo) ==
    /\ tk_pc = "loop"
    /\ arquivo \in tk_todo
    /\ TkSelected(fs, arquivo)
    /\ TkConvertError(fs, arquivo) # ""
    /\ TkConvertError(fs, arquivo) \notin CaughtByOSErrorValueError
    /\ convertendo' = FALSE
    /\ btn_converter' = TRUE
    /\ progress_on' = FALSE
    /\ tk_pc' = "raised"
    /\ UNCHANGED << fs, windows, settings, images, workerVars, guiVars, callVars,
                    diretorio, tk_todo, convertidos, erros, total_economia, tk_log, toolVars >>

\* lines 191-200 and the finally clause (lines 205-209)
ConverterResumo ==
    /\ tk_pc = "loop"
    /\ tk_todo = {}
    /\ tk_log' = tk_log \o << "normal", "resumo", "resumo" >>
                        \o (IF erros > 0 THEN << "resumo" >> ELSE << >>)
                        \o << "resumo" >>
    /\ convertendo' = FALSE
    /\ btn_converter' = TRUE
    /\ progress_on' = FALSE
    /\ tk_pc' = "returned"
    /\ UNCHANGED << fs, windows, settings, images, workerVars, guiVars, callVars,
                    diretorio, tk_todo, convertidos, erros, total_economia, toolVars >>

InitTk ==
    /\ fs \in FileSystems(Tree, MaxFiles)
    /\ windows = FALSE
    /\ widgets = DefaultWidgets
    /\ images = << >>
    /\ NoWorker
    /\ Constructed
    /\ call_pc = "none"
    /\ gp_source = << >>
    /\ gp_now = NoClock
    /\ gp_result = << >>
    /\ save_call = NoSaveCall
    /\ NoTools
    /\ TkConstructed

NextTk ==
    \/ EscolherDiretorio
    \/ IniciarSemDiretorio
    \/ IniciarConversao
    \/ ConverterInicio
    \/ ConverterFatal
    \/ \E arquivo \in tk_todo : ConverterIgnora(arquivo)
    \/ \E arquivo \in tk_todo : ConverterConverte(arquivo)
    \/ \E arquivo \in tk_todo : ConverterErro(arquivo)
    \/ \E arquivo \in tk_todo : ConverterAborta(arquivo)
    \/ ConverterResumo

SpecTk == InitTk /\ [][NextTk]_vars

(***************************************************************************)
(* The claims.                                                             *)
(***************************************************************************)
IsCancelWarning(e) == e.sig = "log_message" /\ e.text = "Conversion cancelled by user"
CancelWarnings == { k \in 1..Len(emitted) : IsCancelWarning(emitted[k]) }

\* C1: every exception raised while one file is processed is recorded as a
\* failure result; none is held by the future and re-raised in run().
C1_NoExceptionReachesRun ==
    /\ \A i \in DOMAIN tasks : tasks[i].exc = ""
    /\ run_pc \notin {"raise_exit", "crashed"}

\* C2: run() submits exactly one call per path of find_images(), the list
\* holds no path twice, and no call is begun more than once.
C2_OneTaskPerImage ==
    /\ \A i, j \in 1..Len(images) : i # j => images[i] # images[j]
    /\ run_pc \notin {"none", "start"} => Len(tasks) = Len(images)
    /\ \A i \in DOMAIN tasks :
         tasks[i].attempts = IF tasks[i].state = "queued" THEN 0 ELSE 1

\* a run of two images or more has ended, a file failed and none was retried
C2_Witness ==
    /\ run_pc = "finished"
    /\ Len(images) >= 2
    /\ \E k \in 1..Len(results) : ~results[k].success
    /\ \A i \in DOMAIN tasks : tasks[i].attempts = 1

\* the results sent with file_converted, in order
RECURSIVE FileConvertedResults(_)
FileConvertedResults(sigs) ==
    IF sigs = << >> THEN << >>
    ELSE (IF Head(sigs).sig = "file_converted" THEN << Head(sigs).result >> ELSE << >>)
         \o FileConvertedResults(Tail(sigs))

\* C3: the flag is read at the start of each iteration of the as_completed
\* loop; an iteration that finds it set emits the warning and leaves the
\* loop with results untouched; the warning is emitted once, nothing but
\* conversion_complete follows it, and conversion_complete carries exactly
\* the results gathered before.
C3_PolledCancellation ==
    /\ [](/\ Cardinality(CancelWarnings) <= 1
          /\ \A k \in CancelWarnings :
               /\ results = FileConvertedResults(SubSeq(emitted, 1, k))
               /\ \/ k = Len(emitted)
                  \/ /\ k + 1 = Len(emitted)
                     /\ emitted[k + 1] = ConversionComplete(results))
    /\ [][run_pc = "loop" /\ is_cancelled /\ loop_i' # loop_i
            => /\ run_pc' = "exit"
               /\ results' = results
               /\ emitted' = Append(emitted, LogMessage("Conversion cancelled by user",
                                                        "warning"))]_vars

\* a cancelled run has ended: results were gathered before the flag was
\* seen, and a finished call was never handled
C3_Witness ==
    /\ run_pc = "finished"
    /\ CancelWarnings # {}
    /\ Len(results) >= 1
    /\ \E i \in DOMAIN tasks : ~tasks[i].yielded

\* C4: when conversion_complete has been emitted, every submitted call has
\* finished.
C4_CompleteAfterAllTasks ==
    CompleteSignals # {} => AllFinished

\* a cancelled run has emitted conversion_complete, and a call that run()
\* never handled was executed to its end
C4_Witness ==
    /\ CompleteSignals # {}
    /\ CancelWarnings # {}
    /\ \E i \in DOMAIN tasks :
         ~tasks[i].yielded /\ tasks[i].state = "finished" /\ tasks[i].attempts = 1

\* C5: never more than settings.max_workers calls are executing.
C5_PoolBound ==
    Cardinality(Executing) <= settings.max_workers

\* the pool is full and a submitted call waits in the queue
C5_Witness ==
    /\ Cardinality(Executing) = settings.max_workers
    /\ \E i \in DOMAIN tasks : tasks[i].state = "queued"

\* C6: the path returned has the extension of the output format; it is a
\* sibling of the source when output_directory is empty, and otherwise lies
\* in output_directory joined with the source's directory relative to the
\* scanned one.
C6_OutputPath ==
    call_pc = "returned" =>
        /\ PathSuffix(gp_result) = OUTPUT_FORMATS[settings.output_format].ext
        /\ settings.output_directory = << >> =>
               PathParent(gp_result) = PathParent(gp_source)
        /\ settings.output_directory # << >> =>
               PathParent(gp_result) =
                   SplitPath(settings.output_directory, << >>)
                       \o RelativeTo(PathParent(gp_source), Directory)

\* the extensions of the selected input format, 'All Images' for an unknown one
RecognizedExtensions ==
    LET exts == IF settings.input_format \in DOMAIN INPUT_FORMATS
                THEN INPUT_FORMATS[settings.input_format]
                ELSE INPUT_FORMATS["All Images"]
    IN  { exts[k] : k \in 1..Len(exts) }

\* C7: the list is sorted and free of duplicates, and holds only image
\* files under the directory with a recognized extension; only direct
\* children unless recursive is set.
C7_FindImages ==
    call_pc = "returned" =>
        /\ \A i \in 1..(Len(images) - 1) : PathLess(images[i], images[i + 1])
        /\ \A i \in 1..Len(images) :
             /\ IsFile(fs, images[i])
             /\ IsUnder(images[i], Directory)
             /\ Lower(PathSuffix(images[i])) \in RecognizedExtensions
             /\ ~settings.recursive => Len(images[i]) = Len(Directory) + 1

ResultShape(r) ==
    IF r.success
    THEN r.output_path # None /\ r.error_message = ""
    ELSE r.output_path = None /\ r.new_size = 0 /\ r.error_message # ""

\* C8: a result is a success with its output path, the size of the written
\* file and no message, or a failure with no output path, size 0 and the
\* exception text; both carry the submitted path and the size read from it
\* before the conversion.
C8_ResultRecord ==
    /\ [](/\ \A k \in 1..Len(results) : ResultShape(results[k])
          /\ \A i \in DOMAIN tasks :
               tasks[i].state = "finished" /\ tasks[i].exc = "" =>
                   /\ ResultShape(tasks[i].result)
                   /\ tasks[i].result.source_path = images[i]
                   /\ tasks[i].result.success =>
                          tasks[i].result.output_path = tasks[i].output_path)
    /\ [][\A i \in DOMAIN tasks \cap DOMAIN tasks' :
            /\ tasks[i].state = "queued" /\ tasks'[i].state = "running"
                   => tasks'[i].original_size = fs[images[i]].size
            /\ tasks[i].state # "finished" /\ tasks'[i].state = "finished"
               /\ tasks'[i].exc = ""
                   => /\ tasks[i].state \in {"running", "saved"}
                      /\ tasks'[i].result.original_size = tasks[i].original_size
                      /\ tasks'[i].result.success =>
                             /\ tasks[i].state = "saved"
                             /\ tasks'[i].result.new_size = fs[tasks[i].output_path].size]_vars

\* one call has returned a success and another a failure with a size
C8_Witness ==
    \E i, j \in DOMAIN tasks :
        /\ tasks[i].state = "finished" /\ tasks[i].result.success
        /\ tasks[j].state = "finished" /\ tasks[j].exc = "" /\ ~tasks[j].result.success
        /\ tasks[j].result.original_size > 0

\* the regular files with extension .png, .jpg or .jpeg under the directory
TkFiles == { p \in DOMAIN fs : IsUnder(p, Directory) /\ TkSelected(fs, p) }

\* C9: an error on one file is counted in erros and the traversal goes on:
\* when converter_imagens has ended, convertidos + erros is the number of
\* the files with extension .png, .jpg or .jpeg.
C9_TkErrorsCounted ==
    tk_pc \in {"returned", "raised"} => convertidos + erros = Cardinality(TkFiles)

\* C10: a run() that has ended has emitted conversion_complete exactly
\* once; with the signal handled the Start button is enabled again and the
\* Cancel button disabled.
C10_CompleteExactlyOnce ==
    /\ run_pc \in {"finished", "crashed"} => Cardinality(CompleteSignals) = 1
    /\ run_pc \in {"finished", "crashed"} /\ handled = Cardinality(CompleteSignals)
           => convert_btn /\ ~cancel_btn

\* the signals of one kind, in the order of their emission
RECURSIVE SelectSignals(_, _)
SelectSignals(sigs, kind) ==
    IF sigs = << >> THEN << >>
    ELSE (IF Head(sigs).sig = kind THEN << Head(sigs) >> ELSE << >>)
         \o SelectSignals(Tail(sigs), kind)

\* C11: once cancel() has been called, a submitted call that has not begun
\* stays unexecuted: it writes no output file and deletes no original.
C11_CancelStopsQueuedTasks ==
    [][is_cancelled =>
         \A i \in DOMAIN tasks \cap DOMAIN tasks' :
             tasks[i].state = "queued" => tasks'[i].state = "queued"]_vars

\* C12: in a run in which cancel() was never called, the list sent with
\* conversion_complete holds one result per discovered image: as many as
\* images, with pairwise distinct source paths, which are the images.
C12_OneResultPerImage ==
    \A c \in CompleteSignals :
        ~is_cancelled =>
            LET rs == emitted[c].results
            IN  /\ Len(rs) = Len(images)
                /\ \A j, k \in 1..Len(rs) : j # k => rs[j].source_path # rs[k].source_path
                /\ { rs[k].source_path : k \in 1..Len(rs) }
                       = { images[i] : i \in 1..Len(images) }

\* an uncancelled run of two images or more has sent its list, and the
\* first result is not the one of the first image
C12_Witness ==
    /\ CompleteSignals # {}
    /\ ~is_cancelled
    /\ Len(images) >= 2
    /\ Len(results) = Len(images)
    /\ results[1].source_path # images[1]

\* C13: the k-th progress signal is (k, total) with total the number of
\* images, as many progress signals as results have been emitted, current
\* never exceeds total, and a run that has ended without cancel() having
\* been called has emitted (total, total) last.
C13_ProgressExact ==
    LET ps == SelectSignals(emitted, "progress")
    IN  /\ \A k \in 1..Len(ps) :
             /\ ps[k].current = k
             /\ ps[k].total = Len(images)
             /\ ps[k].current <= ps[k].total
        /\ Len(ps) = Len(results)
        /\ run_pc \in {"finished", "crashed"} /\ ~is_cancelled /\ images # << >>
               => /\ ps # << >>
                  /\ ps[Len(ps)] = Progress(Len(images), Len(images))

\* the signals run() emits for the results it handles
ResultSignals ==
    { k \in 1..Len(emitted) :
        \/ emitted[k].sig \in {"file_converted", "progress"}
        \/ emitted[k].sig = "log_message" /\ emitted[k].type \in {"success", "error"} }

\* run() emits four log messages before the first result (lines 621-633)
HeaderLength == 4

\* C14: for the k-th result run() emits, in this order and once each, a
\* log_message (success or error), file_converted with the result, and
\* progress; all of them come before the one conversion_complete.
C14_SignalOrder ==
    /\ Cardinality(ResultSignals) = 3 * Len(results)
    /\ \A k \in 1..Len(results) :
         LET first == HeaderLength + 1 + 3 * (k - 1)
         IN  /\ emitted[first] = LogMessage(IF results[k].success THEN "converted" ELSE "failed",
                                            IF results[k].success THEN "success" ELSE "error")
             /\ emitted[first + 1] = FileConverted(results[k])
             /\ emitted[first + 2].sig = "progress"
    /\ Cardinality(CompleteSignals) <= 1
    /\ \A c \in CompleteSignals : \A k \in ResultSignals : k < c

\* a run has ended after a success and a failure were handled
C14_Witness ==
    /\ run_pc = "finished"
    /\ CompleteSignals # {}
    /\ \E j, k \in 1..Len(results) : results[j].success /\ ~results[k].success

\* C15: an entry leaves the file system only as the source of a call that
\* ends as a success, with delete_original set, after the output file was
\* written and its size read, and with an output path that is not the
\* source; the source of a call that has failed is still there.
C15_DeleteOriginalSafe ==
    /\ [](\A i \in DOMAIN tasks :
             tasks[i].state = "finished" /\ ~tasks[i].result.success
                 => Exists(fs, images[i]))
    /\ [][\A p \in DOMAIN fs \ DOMAIN fs' :
            /\ settings.delete_original
            /\ \E i \in DOMAIN tasks \cap DOMAIN tasks' :
                 /\ images[i] = p
                 /\ tasks[i].state = "saved" /\ tasks'[i].state = "finished"
                 /\ tasks'[i].result.success
                 /\ tasks[i].output_path # p
                 /\ Exists(fs, tasks[i].output_path)
                 /\ tasks'[i].result.new_size = fs[tasks[i].output_path].size]_vars

\* with delete_original set, one source has been deleted after its
\* conversion and another, converted onto itself, has been kept
C15_Witness ==
    /\ settings.delete_original
    /\ \E i, j \in DOMAIN tasks :
         /\ tasks[i].state = "finished" /\ tasks[i].result.success
         /\ ~Exists(fs, images[i])
         /\ tasks[j].state = "finished" /\ tasks[j].result.success
         /\ tasks[j].output_path = images[j] /\ Exists(fs, images[j])

\* the name under which the codec library registers each offered format
CodecName ==
    ("WebP" :> << "W", "E", "B", "P" >>) @@ ("PNG" :> << "P", "N", "G" >>) @@
    ("JPEG" :> << "J", "P", "E", "G" >>) @@ ("BMP" :> << "B", "M", "P" >>) @@
    ("GIF" :> << "G", "I", "F" >>) @@ ("TIFF" :> << "T", "I", "F", "F" >>) @@
    ("ICO" :> << "I", "C", "O" >>)

\* C16: for every offered output format the identifier passed to img.save()
\* is the codec library's name of that format, and the save of a decodable
\* image returns.
C16_SaveFormatNames ==
    call_pc # "ready" /\ fs[gp_source].kind = "image" =>
        /\ save_call.format = CodecName[settings.output_format]
        /\ call_pc = "returned"

\* C17: img.save() gets 'quality' exactly for the formats whose quality flag
\* is set (WebP, JPEG, TIFF), with the value settings.quality; 'optimize'
\* exactly when the optimize flag and apply_optimization are set; method=6
\* for WebP only, compress_level=9 for PNG only; and nothing else.
C17_SaveOptions ==
    /\ { f \in DOMAIN OUTPUT_FORMATS : OUTPUT_FORMATS[f].quality } = {"WebP", "JPEG", "TIFF"}
    /\ save_call # NoSaveCall =>
         LET kw == save_call.kwargs
             format_config == OUTPUT_FORMATS[settings.output_format]
         IN  /\ DOMAIN kw \subseteq {"quality", "optimize", "method", "compress_level"}
             /\ "quality" \in DOMAIN kw <=> format_config.quality
             /\ "quality" \in DOMAIN kw => kw["quality"] = settings.quality
             /\ "optimize" \in DOMAIN kw
                    <=> format_config.optimize /\ settings.apply_optimization
             /\ "optimize" \in DOMAIN kw => kw["optimize"] = TRUE
             /\ "method" \in DOMAIN kw <=> settings.output_format = "WebP"
             /\ "method" \in DOMAIN kw => kw["method"] = 6
             /\ "compress_level" \in DOMAIN kw <=> settings.output_format = "PNG"
             /\ "compress_level" \in DOMAIN kw => kw["compress_level"] = 9

\* an image has been saved as TIFF with quality only, and the slider was
\* not at its default
C17_Witness ==
    /\ call_pc = "returned"
    /\ settings.output_format = "TIFF"
    /\ settings.quality = 1
    /\ DOMAIN save_call.kwargs = {"quality"}

\* C18: at most one worker runs at a time: the Start button is enabled only
\* with no worker or with a worker whose run and calls have ended and whose
\* conversion_complete was handled; it is disabled by start_conversion and
\* enabled again by on_conversion_complete only; a worker is created, and
\* settings is written, only with the button enabled.
C18_SingleWorker ==
    /\ [](convert_btn =>
            /\ run_pc \in {"none", "finished"}
            /\ AllFinished
            /\ run_pc = "finished" => handled = Cardinality(CompleteSignals))
    /\ [][/\ settings' # settings \/ (run_pc' = "start" /\ run_pc # "start")
               => /\ convert_btn /\ ~convert_btn'
                  /\ settings' = UpdatedSettings(settings, widgets)
          /\ ~convert_btn /\ convert_btn'
               => run_pc = "finished" /\ handled' = handled + 1]_vars

\* a worker is running on settings that are no longer what the widgets
\* hold, with the Start button disabled
C18_Witness ==
    /\ run_pc = "loop"
    /\ \E i \in DOMAIN tasks : tasks[i].state = "running"
    /\ ~convert_btn
    /\ settings # UpdatedSettings(settings, widgets)

\* the thread running converter_imagens has not reached its end
TkThreadAlive == tk_pc \in {"start", "loop"}

C20_TkInterfaceRestored ==
    tk_pc \in {"returned", "fatal", "raised"} =>
        /\ ~convertendo
        /\ btn_converter
        /\ ~progress_on
        /\ ENABLED IniciarConversao

\* converter_imagens has ended through an exception no except clause catches
C20_Witness ==
    /\ tk_pc = "raised"
    /\ ~convertendo /\ btn_converter /\ ~progress_on
    /\ \E p \in tk_todo : TkSelected(fs, p) /\ TkConvertError(fs, p) = "DecompressionBombError"

\* C22: the row of a run reads 'Success' only if every image the run found
\* was converted successfully; each handled conversion_complete adds one
\* row, and nothing else adds or removes one.
C22_HistoryStatus ==
    /\ [](handled = 1 /\ history[Len(history)].status = "Success"
             => \A i \in 1..Len(images) :
                    tasks[i].state = "finished" /\ tasks[i].result.success)
    /\ [][/\ handled' = handled + 1 => Len(history') = Len(history) + 1
          /\ history' # history => handled' = handled + 1]_vars

\* C21: with the aspect ratio kept and both sizes given, the result fits in
\* the box and both dimensions are the original ones scaled by the smaller
\* of the two ratios; with one size given that dimension is the requested
\* one and the other is scaled by the same ratio; a size left at 0 with the
\* aspect ratio off keeps the original value; with both at 0 the original
\* size is returned.  A scaled dimension is the integer part of the product;
\* inside the box it may be one less, where the ratio is that of the result.
C21_CalculateResize ==
    call_pc = "returned" =>
        LET width == rz_original_size[1]
            height == rz_original_size[2]
            rw == settings.resize_width
            rh == settings.resize_height
            by_width == rw * height <= rh * width
        IN  /\ settings.maintain_aspect_ratio /\ rw # 0 /\ rh # 0 =>
                 /\ rz_new_size[1] <= rw /\ rz_new_size[2] <= rh
                 /\ by_width =>
                        /\ rz_new_size[1] \in { rw, rw - 1 }
                        /\ rz_new_size[2] \in { (height * rw) \div width,
                                                 ((height * rw) \div width) - 1 }
                 /\ ~by_width =>
                        /\ rz_new_size[1] \in { (width * rh) \div height,
                                                 ((width * rh) \div height) - 1 }
                        /\ rz_new_size[2] \in { rh, rh - 1 }
            /\ settings.maintain_aspect_ratio /\ rw # 0 /\ rh = 0 =>
                 rz_new_size = << rw, (height * rw) \div width >>
            /\ settings.maintain_aspect_ratio /\ rw = 0 /\ rh # 0 =>
                 rz_new_size = << (width * rh) \div height, rh >>
            /\ ~settings.maintain_aspect_ratio =>
                 /\ rz_new_size[1] = (IF rw = 0 THEN width ELSE rw)
                 /\ rz_new_size[2] = (IF rh = 0 THEN height ELSE rh)
            /\ rw = 0 /\ rh = 0 => rz_new_size = rz_original_size

====
